---- MODULE Spec2Model ----
(***************************************************************************)
(* Mode orchestrator (Scene.tsx) and per-object interpolators               *)
(* (VoxelTree.tsx, AnimatedOrnament in Scene.tsx) of the gift-box scene.    *)
(*                                                                          *)
(* Time is counted in milliseconds.  Coordinates and scales are exact       *)
(* fixed-point numbers: the integer n stands for the real n / Unit, and     *)
(* Unit is chosen so that no interpolation within MaxTicks frames rounds.   *)
(***************************************************************************)
EXTENDS Integers, FiniteSets, Sequences, TLC

VARIABLES mode, internalMode, isBoxOpen, timers, timeout,
          sinceRequest, before, rendered, event, obj, ticks,
          voxels, ornaments, frameLog, lid

orchVars == <<mode, internalMode, isBoxOpen, timers, timeout>>
histVars == <<sinceRequest, before, rendered>>
sceneVars == <<voxels, ornaments, frameLog, lid>>
animVars == <<obj, ticks, voxels, ornaments, frameLog, lid>>
vars == <<mode, internalMode, isBoxOpen, timers, timeout,
          sinceRequest, before, rendered, event, obj, ticks,
          voxels, ornaments, frameLog, lid>>

\* ------------------------------------------------------------------ bounds
TimeStep == 50
MaxElapsed == 600
MaxTicks == 3

\* ------------------------------------------------------- program constants
AppMode == {"INITIAL", "SCATTERED", "TREE"}
CloseDelay == 500
OpenDelay == 350
NoTimeout == 0

\* =========================================================================
\* Mode orchestrator: Scene's useState pair and its useEffect
\*
\* An orchestrator state st is a record: internalMode, isBoxOpen, the set of
\* pending timers, the handle `timeout` held by the latest effect's cleanup,
\* and trace, the values internalMode was changed to during the current step.
\* A timer is [id, kind, arg, remaining, stale]: kind "close" runs
\* setIsBoxOpen(false), kind "open" runs setInternalMode(arg); stale is
\* bookkeeping, set when requestedMode changes while the timer is pending.
\* =========================================================================

\* The handle the timer primitive returns: any id not in use.
NewId(ts) == CHOOSE i \in 1..(Cardinality(ts) + 1) : \A t \in ts : t.id # i

\* Mutant: the handle is dropped, so the cleanup has nothing to cancel.
setTimeout_HandleLost(st, kind, arg, delay) ==
    LET h == NewId(st.timers) IN
    [st EXCEPT !.timers = @ \cup {[id |-> h, kind |-> kind, arg |-> arg,
                                   remaining |-> delay, stale |-> FALSE]},
               !.timeout = NoTimeout]

\* setTimeout(callback, delay); the handle is stored in the effect's `timeout`.
setTimeout(st, kind, arg, delay) ==
    LET h == NewId(st.timers) IN
    [st EXCEPT !.timers = @ \cup {[id |-> h, kind |-> kind, arg |-> arg,
                                   remaining |-> delay, stale |-> FALSE]},
               !.timeout = h]

\* Mutant: the cleanup cancels open timers only.
clearTimeout_KeepsClose(st) ==
    [st EXCEPT !.timers = {t \in @ : t.id # st.timeout \/ t.kind = "close"}]

\* Mutant: the cleanup cancels close timers only.
clearTimeout_KeepsOpen(st) ==
    [st EXCEPT !.timers = {t \in @ : t.id # st.timeout \/ t.kind = "open"}]

\* Mutant: the cleanup cancels nothing.
clearTimeout_Nothing(st) == st

\* clearTimeout(timeout), the cleanup the effect returns.
clearTimeout(st) ==
    [st EXCEPT !.timers = {t \in @ : t.id # st.timeout}]

\* setInternalMode(v): a state change only when the value differs.
setInternalMode(st, v) ==
    IF v = st.internalMode THEN st
    ELSE [st EXCEPT !.internalMode = v, !.trace = Append(@, v)]

\* Mutant: the setter flips the lid instead of storing b.
setIsBoxOpen_Toggle(st, b) == [st EXCEPT !.isBoxOpen = ~@]

\* setIsBoxOpen(b)
setIsBoxOpen(st, b) == [st EXCEPT !.isBoxOpen = b]

\* Mutant: the opening sequence never opens the lid.
effect_LidStaysShut(m, st) ==
    IF m = "INITIAL"
    THEN setTimeout(setInternalMode(st, "INITIAL"), "close", m, CloseDelay)
    ELSE IF st.internalMode = "INITIAL"
         THEN setTimeout(st, "open", m, OpenDelay)
         ELSE [setInternalMode(st, m) EXCEPT !.timeout = NoTimeout]

\* Mutant: the opening sequence does not wait for the lid.
effect_NoOpenDelay(m, st) ==
    IF m = "INITIAL"
    THEN setTimeout(setInternalMode(st, "INITIAL"), "close", m, CloseDelay)
    ELSE [setInternalMode(setIsBoxOpen(st, TRUE), m) EXCEPT !.timeout = NoTimeout]

\* Mutant: the closing sequence shuts the lid at once.
effect_LidShutAtOnce(m, st) ==
    IF m = "INITIAL"
    THEN [setIsBoxOpen(setInternalMode(st, "INITIAL"), FALSE) EXCEPT !.timeout = NoTimeout]
    ELSE IF st.internalMode = "INITIAL"
         THEN setTimeout(setIsBoxOpen(st, TRUE), "open", m, OpenDelay)
         ELSE [setInternalMode(setIsBoxOpen(st, TRUE), m) EXCEPT !.timeout = NoTimeout]

\* Mutant: the open timer always sets SCATTERED.
effect_OpenScattered(m, st) ==
    IF m = "INITIAL"
    THEN setTimeout(setInternalMode(st, "INITIAL"), "close", m, CloseDelay)
    ELSE IF st.internalMode = "INITIAL"
         THEN setTimeout(setIsBoxOpen(st, TRUE), "open", "SCATTERED", OpenDelay)
         ELSE [setInternalMode(setIsBoxOpen(st, TRUE), m) EXCEPT !.timeout = NoTimeout]

\* Mutant: the delayed branch is chosen by the lid, not by internalMode.
effect_ByLid(m, st) ==
    IF m = "INITIAL"
    THEN setTimeout(setInternalMode(st, "INITIAL"), "close", m, CloseDelay)
    ELSE IF ~st.isBoxOpen
         THEN setTimeout(setIsBoxOpen(st, TRUE), "open", m, OpenDelay)
         ELSE [setInternalMode(setIsBoxOpen(st, TRUE), m) EXCEPT !.timeout = NoTimeout]

\* Mutant: the INITIAL branch schedules no close of the lid.
effect_NoCloseTimer(m, st) ==
    IF m = "INITIAL"
    THEN [setInternalMode(st, "INITIAL") EXCEPT !.timeout = NoTimeout]
    ELSE IF st.internalMode = "INITIAL"
         THEN setTimeout(setIsBoxOpen(st, TRUE), "open", m, OpenDelay)
         ELSE [setInternalMode(setIsBoxOpen(st, TRUE), m) EXCEPT !.timeout = NoTimeout]

\* Mutant: every switch to a non-INITIAL mode waits for the open delay.
effect_AlwaysDelayed(m, st) ==
    IF m = "INITIAL"
    THEN setTimeout(setInternalMode(st, "INITIAL"), "close", m, CloseDelay)
    ELSE setTimeout(setIsBoxOpen(st, TRUE), "open", m, OpenDelay)

\* The effect body, run with the mode and internalMode of the render that
\* scheduled it.
effect(m, st) ==
    IF m = "INITIAL"
    THEN setTimeout(setInternalMode(st, "INITIAL"), "close", m, CloseDelay)
    ELSE IF st.internalMode = "INITIAL"
         THEN setTimeout(setIsBoxOpen(st, TRUE), "open", m, OpenDelay)
         ELSE [setInternalMode(setIsBoxOpen(st, TRUE), m) EXCEPT !.timeout = NoTimeout]

\* A commit whose dependencies [mode, internalMode] changed: the previous
\* effect's cleanup, then the effect; a state change made by the effect
\* renders again and re-runs the effect until internalMode is stable.
RECURSIVE commit(_, _)
commit(m, st) ==
    LET s1 == effect(m, clearTimeout(st)) IN
    IF s1.internalMode = st.internalMode THEN s1 ELSE commit(m, s1)

OrchState == [internalMode |-> internalMode, isBoxOpen |-> isBoxOpen,
              timers |-> timers, timeout |-> timeout, trace |-> <<>>]

SetOrch(s) ==
    /\ internalMode' = s.internalMode
    /\ isBoxOpen' = s.isBoxOpen
    /\ timers' = s.timers
    /\ timeout' = s.timeout
    /\ rendered' = s.trace

\* Mutant: every button is rendered in every mode.
Buttons_All(m) == {"SCATTERED", "TREE", "INITIAL"}

\* The buttons Overlay renders for the current mode.
Buttons(m) == IF m = "INITIAL" THEN {"SCATTERED"} ELSE {"SCATTERED", "TREE", "INITIAL"}

MarkStale(ts) == {[t EXCEPT !.stale = TRUE] : t \in ts}

\* Mutant: a click re-renders and re-runs the effect even for the same mode.
setMode_AlwaysCommit(m) ==
    /\ m \in Buttons(mode)
    /\ mode' = m
    /\ event' = [op |-> "setMode", arg |-> m, delta |-> <<0, 1>>]
    /\ SetOrch(commit(m, [OrchState EXCEPT !.timers = MarkStale(@)]))
    /\ sinceRequest' = 0
    /\ before' = [mode |-> mode, internalMode |-> internalMode,
                  isBoxOpen |-> isBoxOpen]
    /\ UNCHANGED animVars

\* A click: App's setMode(m).  Setting the value mode already has renders nothing.
setMode(m) ==
    /\ m \in Buttons(mode)
    /\ mode' = m
    /\ event' = [op |-> "setMode", arg |-> m, delta |-> <<0, 1>>]
    /\ IF m = mode
       THEN /\ UNCHANGED <<internalMode, isBoxOpen, timers, timeout, sinceRequest, before>>
            /\ rendered' = <<>>
       ELSE /\ SetOrch(commit(m, [OrchState EXCEPT !.timers = MarkStale(@)]))
            /\ sinceRequest' = 0
            /\ before' = [mode |-> mode, internalMode |-> internalMode,
                          isBoxOpen |-> isBoxOpen]
    /\ UNCHANGED animVars

\* A due timer runs its callback; a changed internalMode commits again.
TimerFire(t) ==
    /\ t \in timers
    /\ t.remaining = 0
    /\ event' = [op |-> "timer", arg |-> t.kind, delta |-> <<0, 1>>]
    /\ LET s0 == [OrchState EXCEPT !.timers = @ \ {t}] IN
       IF t.kind = "close"
       THEN SetOrch(setIsBoxOpen(s0, FALSE))
       ELSE IF t.arg = internalMode
            THEN SetOrch(s0)
            ELSE SetOrch(commit(mode, setInternalMode(s0, t.arg)))
    /\ UNCHANGED <<mode, sinceRequest, before>>
    /\ UNCHANGED animVars

Max(a, b) == IF a >= b THEN a ELSE b
Min(a, b) == IF a <= b THEN a ELSE b

\* d milliseconds pass; a due timer may still fire late.
Advance(d) ==
    /\ \/ sinceRequest < MaxElapsed
       \/ \E t \in timers : t.remaining > 0
    /\ timers' = {[t EXCEPT !.remaining = Max(0, @ - d)] : t \in timers}
    /\ sinceRequest' = Min(MaxElapsed, sinceRequest + d)
    /\ event' = [op |-> "advance", arg |-> "none", delta |-> <<0, 1>>]
    /\ rendered' = <<>>
    /\ UNCHANGED <<mode, internalMode, isBoxOpen, timeout, before>>
    /\ UNCHANGED animVars

\* =========================================================================
\* Per-object interpolators
\* =========================================================================

\* One scene unit in fixed point; Fifth is 0.2 scene units.
Unit == 5 * 4^MaxTicks
Fifth == Unit \div 5

Vec(x, y, z) == [x |-> x, y |-> y, z |-> z]

\* Sample objects.  Voxel tree positions are grid cells [x, y - 6, z], the
\* trunk is on the axis; scatter positions lie on the shell 12 <= r < 22;
\* initial positions lie in the box.  The ornament with id 0 is the topper.
VoxelConfigs ==
    { [kind |-> "voxel", treePos |-> Vec(2 * Unit, 3 * Unit, -1 * Unit),
       scatterPos |-> Vec(8 * Unit, 8 * Unit, 4 * Unit),
       initialPos |-> Vec(1 * Unit, -4 * Unit, -1 * Unit), scale |-> Unit],
      [kind |-> "voxel", treePos |-> Vec(0, -5 * Unit, 0),
       scatterPos |-> Vec(8 * Unit, -8 * Unit, 4 * Unit),
       initialPos |-> Vec(-1 * Unit, -3 * Unit, 1 * Unit), scale |-> Unit],
      [kind |-> "voxel", treePos |-> Vec(3 * Unit, -4 * Unit, 0),
       scatterPos |-> Vec(12 * Unit, -1 * Unit, 5 * Unit),
       initialPos |-> Vec(1 * Unit, -5 * Unit, 0), scale |-> Unit] }

OrnamentConfigs ==
    { [kind |-> "ornament", treePos |-> Vec(0, 49 * Fifth, 0),
       scatterPos |-> Vec(0, 15 * Unit, 0),
       initialPos |-> Vec(0, -5 * Unit, 0), scale |-> Unit],
      [kind |-> "ornament", treePos |-> Vec(4 * Unit, -2 * Unit, 3 * Unit),
       scatterPos |-> Vec(-4 * Unit, -8 * Unit, 8 * Unit),
       initialPos |-> Vec(1 * Unit, -4 * Unit, -1 * Unit), scale |-> 4 * Fifth] }

\* currentPositions = initialPos.clone(), scale 0.2 set by useLayoutEffect.
InitVoxel(c) ==
    [kind |-> c.kind, treePos |-> c.treePos, scatterPos |-> c.scatterPos,
     initialPos |-> c.initialPos, scale |-> c.scale,
     position |-> c.initialPos, curScale |-> Fifth]

\* <group ref={groupRef}>: a new group is at the origin with scale 1.
InitOrnament(c) ==
    [kind |-> c.kind, treePos |-> c.treePos, scatterPos |-> c.scatterPos,
     initialPos |-> c.initialPos, scale |-> c.scale,
     position |-> Vec(0, 0, 0), curScale |-> Unit]

\* Rationals <<numerator, denominator>> for delta (seconds), rates and steps.
VoxelRate == <<5, 2>>
OrnamentRate == <<3, 1>>
VoxelThreshold == -2
OrnamentThreshold == -1

\* Mutant: the step is not clamped.
Step_NoClamp(delta, rate) == <<delta[1] * rate[1], delta[2] * rate[2]>>

\* Math.min(1, delta * rate)
Step(delta, rate) ==
    LET n == delta[1] * rate[1]
        d == delta[2] * rate[2]
    IN IF n >= d THEN <<1, 1>> ELSE <<n, d>>

\* step * 0.5
Half(t) == <<t[1], 2 * t[2]>>

\* THREE.MathUtils.lerp(x, y, t) = (1 - t) * x + t * y
MathUtils_lerp(x, y, t) == ((t[2] - t[1]) * x + t[1] * y) \div t[2]

\* THREE.Vector3.lerp(v, alpha): this.c += (v.c - this.c) * alpha
Vector3_lerp(p, v, alpha) ==
    [x |-> p.x + ((v.x - p.x) * alpha[1]) \div alpha[2],
     y |-> p.y + ((v.y - p.y) * alpha[1]) \div alpha[2],
     z |-> p.z + ((v.z - p.z) * alpha[1]) \div alpha[2]]

\* The target position the frame callback selects for a mode.
VoxelTarget(o, m) ==
    IF m = "SCATTERED" THEN o.scatterPos
    ELSE IF m = "INITIAL" THEN o.initialPos ELSE o.treePos

OrnamentTarget(o, m) ==
    IF m = "INITIAL" THEN o.initialPos
    ELSE IF m = "SCATTERED" THEN o.scatterPos ELSE o.treePos

VoxelTargetScale(m) ==
    IF m = "INITIAL" THEN Fifth ELSE IF m = "TREE" THEN Unit ELSE 4 * Fifth

OrnamentTargetScale(o, m) == IF m = "INITIAL" THEN Fifth ELSE o.scale

\* Mutant: the fountain branch remembers that the voxel started in the box.
VoxelFountain_FromStart(o, m) ==
    m = "SCATTERED" /\ o.initialPos.y < VoxelThreshold * Unit

\* Mutant: the fountain branch is taken in every mode.
VoxelFountain_AnyMode(o, m) == o.position.y < VoxelThreshold * Unit

VoxelFountain(o, m) == m = "SCATTERED" /\ o.position.y < VoxelThreshold * Unit
OrnamentFountain(o, m) == m = "SCATTERED" /\ o.position.y < OrnamentThreshold * Unit

\* Mutant: the fountain branch damps X/Z at the full step.
FountainMove_FullStep(p, targetPos, step) ==
    [x |-> MathUtils_lerp(p.x, 0, step),
     y |-> MathUtils_lerp(p.y, targetPos.y, step),
     z |-> MathUtils_lerp(p.z, 0, step)]

\* Mutant: the fountain branch damps X/Z toward the target instead of the axis.
FountainMove_TowardTarget(p, targetPos, step) ==
    [x |-> MathUtils_lerp(p.x, targetPos.x, Half(step)),
     y |-> MathUtils_lerp(p.y, targetPos.y, step),
     z |-> MathUtils_lerp(p.z, targetPos.z, Half(step))]

\* The fountain branch: damp X/Z toward 0 at half the step, lerp Y normally.
FountainMove(p, targetPos, step) ==
    [x |-> MathUtils_lerp(p.x, 0, Half(step)),
     y |-> MathUtils_lerp(p.y, targetPos.y, step),
     z |-> MathUtils_lerp(p.z, 0, Half(step))]

\* Mutant: currentPositions shares its vectors with instancesData.initialPos.
VoxelTree_useFrame_NoClone(o, m, delta) ==
    LET step == Step(delta, VoxelRate)
        targetPos == VoxelTarget(o, m)
        p == IF VoxelFountain(o, m)
             THEN FountainMove(o.position, targetPos, step)
             ELSE Vector3_lerp(o.position, targetPos, step)
    IN [o EXCEPT !.position = p, !.initialPos = p,
                 !.curScale = VoxelTargetScale(m)]

\* VoxelTree's useFrame body for one instance.
VoxelTree_useFrame(o, m, delta) ==
    LET step == Step(delta, VoxelRate)
        targetPos == VoxelTarget(o, m)
    IN [o EXCEPT !.position = IF VoxelFountain(o, m)
                              THEN FountainMove(o.position, targetPos, step)
                              ELSE Vector3_lerp(o.position, targetPos, step),
                 !.curScale = VoxelTargetScale(m)]

\* AnimatedOrnament's useFrame body.
AnimatedOrnament_useFrame(o, m, delta) ==
    LET step == Step(delta, OrnamentRate)
        targetPos == OrnamentTarget(o, m)
    IN [o EXCEPT !.position = IF OrnamentFountain(o, m)
                              THEN FountainMove(o.position, targetPos, step)
                              ELSE Vector3_lerp(o.position, targetPos, step),
                 !.curScale = MathUtils_lerp(o.curScale, OrnamentTargetScale(o, m), step)]

\* Frame times tried for a rate: 0, half of 1/rate, exactly 1/rate, a 1 s stall.
Deltas(rate) == { <<0, 1>>, <<rate[2], 2 * rate[1]>>, <<rate[2], rate[1]>>, <<1, 1>> }

\* One rendered frame of the voxel instance.
VoxelFrame(delta) ==
    /\ obj.kind = "voxel"
    /\ delta[1] > 0 => ticks < MaxTicks
    /\ obj' = VoxelTree_useFrame(obj, internalMode, delta)
    /\ ticks' = IF delta[1] > 0 THEN ticks + 1 ELSE ticks
    /\ event' = [op |-> "frame", arg |-> obj.kind, delta |-> delta]
    /\ UNCHANGED <<orchVars, histVars, sceneVars>>

\* One rendered frame of the ornament.
OrnamentFrame(delta) ==
    /\ obj.kind = "ornament"
    /\ delta[1] > 0 => ticks < MaxTicks
    /\ obj' = AnimatedOrnament_useFrame(obj, internalMode, delta)
    /\ ticks' = IF delta[1] > 0 THEN ticks + 1 ELSE ticks
    /\ event' = [op |-> "frame", arg |-> obj.kind, delta |-> delta]
    /\ UNCHANGED <<orchVars, histVars, sceneVars>>

\* ------------------------------------------------------- the whole frame
\* All frame callbacks of one rendered frame run to completion one after the
\* other: VoxelTree's loop over the instances, then each AnimatedOrnament.
\* frameLog lists what the latest frame did, in order: an entry
\* [op, i, mode] per instance matrix written ("setMatrixAt"), for the
\* instanceMatrix.needsUpdate assignment ("needsUpdate", i = 0) and per
\* ornament moved ("ornament"), with the mode prop the callback read.

RECURSIVE SeqOf(_)
SeqOf(S) == IF S = {} THEN <<>>
            ELSE LET x == CHOOSE y \in S : TRUE IN <<x>> \o SeqOf(S \ {x})

InitVoxels == SeqOf({InitVoxel(c) : c \in VoxelConfigs})
InitOrnaments == SeqOf({InitOrnament(c) : c \in OrnamentConfigs})

\* <VoxelTree mode={internalMode} />
VoxelTree_mode == internalMode

\* Mutant: the ornaments are handed the requested mode.
AnimatedOrnament_mode_Requested == mode

\* <AnimatedOrnament key={config.id} mode={internalMode} config={config}>
AnimatedOrnament_mode == internalMode

LogEntry(op, i, m) == [op |-> op, i |-> i, mode |-> m]

\* for (let i = 0; i < voxels.length; i++) { ...; setMatrixAt(i, dummy.matrix) }
RECURSIVE VoxelTree_loop(_, _, _, _, _)
VoxelTree_loop(vs, i, m, delta, log) ==
    IF i > Len(vs) THEN [objs |-> vs, log |-> log]
    ELSE VoxelTree_loop([vs EXCEPT ![i] = VoxelTree_useFrame(vs[i], m, delta)],
                        i + 1, m, delta, Append(log, LogEntry("setMatrixAt", i, m)))

\* VoxelTree's useFrame: the loop, then instanceMatrix.needsUpdate = true.
VoxelTree_frame(vs, m, delta, log) ==
    LET r == VoxelTree_loop(vs, 1, m, delta, log)
    IN [r EXCEPT !.log = Append(@, LogEntry("needsUpdate", 0, m))]

\* The useFrame callbacks of the AnimatedOrnament components, in mount order.
RECURSIVE Ornaments_frame(_, _, _, _, _)
Ornaments_frame(os, j, m, delta, log) ==
    IF j > Len(os) THEN [objs |-> os, log |-> log]
    ELSE Ornaments_frame([os EXCEPT ![j] = AnimatedOrnament_useFrame(os[j], m, delta)],
                         j + 1, m, delta, Append(log, LogEntry("ornament", j, m)))

\* Frame times of a whole frame: every step is 0 or 1 for both rates.
TickDeltas == { <<0, 1>>, <<2, 5>>, <<1, 1>> }

\* One rendered frame of the whole scene.
Tick(delta) ==
    /\ delta[1] > 0 => ticks < MaxTicks
    /\ LET v == VoxelTree_frame(voxels, VoxelTree_mode, delta, <<>>)
           o == Ornaments_frame(ornaments, 1, AnimatedOrnament_mode, delta, v.log)
       IN /\ voxels' = v.objs
          /\ ornaments' = o.objs
          /\ frameLog' = o.log
    /\ ticks' = IF delta[1] > 0 THEN ticks + 1 ELSE ticks
    /\ event' = [op |-> "tick", arg |-> "scene", delta |-> delta]
    /\ UNCHANGED <<orchVars, histVars, obj, lid>>

\* ---------------------------------------------------------- gift box lid
\* The lid group of IntroGiftBox: rotation.x, position.y, position.z.  The
\* rotation is counted in units of the open angle, so -Unit is -PI / 1.8.

\* <group ref={lidRef} position={[0, boxSize/2 + lidHeight/2 - 0.1, 0]}>
InitLid == [rotX |-> 0, posY |-> (41 * Unit) \div 20, posZ |-> 0]

\* targetRotation, targetY, targetZ
LidTarget(isOpen) ==
    IF isOpen THEN [rotX |-> -1 * Unit, posY |-> 2 * Unit, posZ |-> -2 * Unit]
    ELSE [rotX |-> 0, posY |-> (41 * Unit) \div 20, posZ |-> 0]

\* delta * 3
LidFactor(delta) == <<delta[1] * 3, delta[2]>>

\* IntroGiftBox's useFrame body.
IntroGiftBox_useFrame(l, isOpen, delta) ==
    LET t == LidTarget(isOpen)
        f == LidFactor(delta)
    IN [rotX |-> MathUtils_lerp(l.rotX, t.rotX, f),
        posY |-> MathUtils_lerp(l.posY, t.posY, f),
        posZ |-> MathUtils_lerp(l.posZ, t.posZ, f)]

\* Frame times tried for the lid: factor 0, 1/2, 1 and, for a 1 s stall, 3.
LidDeltas == { <<0, 1>>, <<1, 6>>, <<1, 3>>, <<1, 1>> }

\* One rendered frame of the lid.
LidFrame(delta) ==
    /\ delta[1] > 0 => ticks < MaxTicks
    /\ lid' = IntroGiftBox_useFrame(lid, isBoxOpen, delta)
    /\ ticks' = IF delta[1] > 0 THEN ticks + 1 ELSE ticks
    /\ event' = [op |-> "lidframe", arg |-> "lid", delta |-> delta]
    /\ UNCHANGED <<orchVars, histVars, obj, voxels, ornaments, frameLog>>

\* =========================================================================
\* Specifications
\* =========================================================================

\* After mount: the first effect run (mode = INITIAL) has scheduled a close.
InitOrch ==
    /\ mode = "INITIAL"
    /\ LET s == effect("INITIAL", [internalMode |-> "INITIAL", isBoxOpen |-> FALSE,
                                   timers |-> {}, timeout |-> NoTimeout,
                                   trace |-> <<>>])
       IN /\ internalMode = s.internalMode
          /\ isBoxOpen = s.isBoxOpen
          /\ timers = s.timers
          /\ timeout = s.timeout
    /\ sinceRequest = 0
    /\ before = [mode |-> "INITIAL", internalMode |-> "INITIAL", isBoxOpen |-> FALSE]
    /\ rendered = <<>>
    /\ event = [op |-> "mount", arg |-> "none", delta |-> <<0, 1>>]

InitObjects == {InitVoxel(c) : c \in VoxelConfigs} \cup {InitOrnament(c) : c \in OrnamentConfigs}

\* The scene's objects as mounted; no frame has run.
InitScene ==
    /\ voxels = InitVoxels
    /\ ornaments = InitOrnaments
    /\ frameLog = <<>>
    /\ lid = InitLid

\* The orchestrator with its timers; the animated object is left alone.
Init ==
    /\ InitOrch
    /\ obj = InitVoxel(CHOOSE c \in VoxelConfigs : c.treePos.x = 0)
    /\ ticks = 0
    /\ InitScene

Next ==
    \/ \E m \in AppMode : setMode(m)
    \/ \E t \in timers : TimerFire(t)
    \/ Advance(TimeStep)

Spec == Init /\ [][Next]_vars

\* The orchestrator with timers that fire once due.
FairSpec == Spec /\ WF_vars(\E t \in timers : TimerFire(t)) /\ WF_vars(Advance(TimeStep))

\* One animated object under frames, with the orchestrator driving
\* internalMode; time passes in steps that make every pending timer due.
InitAnim ==
    /\ InitOrch
    /\ obj \in InitObjects
    /\ ticks = 0
    /\ InitScene

NextAnim ==
    \/ \E d \in Deltas(VoxelRate) : VoxelFrame(d)
    \/ \E d \in Deltas(OrnamentRate) : OrnamentFrame(d)
    \/ \E m \in AppMode : setMode(m)
    \/ \E t \in timers : TimerFire(t)
    \/ Advance(CloseDelay)

SpecAnim == InitAnim /\ [][NextAnim]_vars

\* The whole scene under frames, with the orchestrator driving internalMode.
NextTick ==
    \/ \E d \in TickDeltas : Tick(d)
    \/ \E m \in AppMode : setMode(m)
    \/ \E t \in timers : TimerFire(t)
    \/ Advance(CloseDelay)

SpecTick == Init /\ [][NextTick]_vars

\* The lid under frames, with the orchestrator driving isBoxOpen.
NextLid ==
    \/ \E d \in LidDeltas : LidFrame(d)
    \/ \E m \in AppMode : setMode(m)
    \/ \E t \in timers : TimerFire(t)
    \/ Advance(CloseDelay)

SpecLid == Init /\ [][NextLid]_vars

\* =========================================================================
\* Properties of the mode orchestrator (checked under Spec)
\* =========================================================================

\* C1: whenever internalMode is not INITIAL the lid is open; the lag windows
\* only show internalMode = INITIAL under an open lid.
LidOpenWhenOut_C1 ==
    /\ internalMode # "INITIAL" => isBoxOpen
    /\ \A i \in DOMAIN rendered : rendered[i] # "INITIAL" => isBoxOpen

\* The open timer has moved the objects out of the box.
Witness_C1 ==
    /\ event.op = "timer" /\ event.arg = "open"
    /\ internalMode # "INITIAL"
    /\ isBoxOpen

\* C2: a request for a non-INITIAL mode in the closed state opens the lid in
\* the same step and leaves internalMode INITIAL; internalMode leaves INITIAL
\* only OpenDelay ms or more after the request, and then takes the requested
\* mode.
OpenFromClosed_C2 ==
    [][ /\ (mode = "INITIAL" /\ internalMode = "INITIAL" /\ ~isBoxOpen /\ mode' # "INITIAL")
            => (isBoxOpen' /\ internalMode' = "INITIAL" /\ rendered' = <<>>)
        /\ (internalMode = "INITIAL" /\ rendered' # <<>> /\ rendered'[1] # "INITIAL")
            => (sinceRequest >= OpenDelay /\ rendered' = <<mode'>> /\ internalMode' = mode')
      ]_vars

\* Opened from the closed state: the objects left after the delay.
Witness_C2 ==
    /\ event.op = "timer" /\ event.arg = "open"
    /\ before = [mode |-> "INITIAL", internalMode |-> "INITIAL", isBoxOpen |-> FALSE]
    /\ internalMode = "SCATTERED"
    /\ sinceRequest >= OpenDelay

\* C3: a request for INITIAL sets internalMode to INITIAL in the same step;
\* the lid closes only CloseDelay ms or more after the request.
Closing_C3 ==
    [][ /\ (mode # "INITIAL" /\ mode' = "INITIAL")
            => (internalMode' = "INITIAL" /\ isBoxOpen' = isBoxOpen)
        /\ (isBoxOpen /\ ~isBoxOpen')
            => (mode = "INITIAL" /\ sinceRequest >= CloseDelay)
      ]_vars

\* Closed from the assembled tree: the lid shut after the delay.
Witness_C3 ==
    /\ event.op = "timer" /\ event.arg = "close"
    /\ before = [mode |-> "TREE", internalMode |-> "TREE", isBoxOpen |-> TRUE]
    /\ internalMode = "INITIAL"
    /\ ~isBoxOpen
    /\ sinceRequest >= CloseDelay

\* C4: when TREE supersedes SCATTERED before the open delay has fired,
\* internalMode goes from INITIAL to TREE and is never SCATTERED.
Debounce_C4 ==
    (mode = "TREE" /\ before.mode = "SCATTERED" /\ before.internalMode = "INITIAL")
        => /\ internalMode \in {"INITIAL", "TREE"}
           /\ \A i \in DOMAIN rendered : rendered[i] = "TREE"

\* The delayed action of the superseding request has fired.
Witness_C4 ==
    /\ mode = "TREE" /\ before.mode = "SCATTERED" /\ before.internalMode = "INITIAL"
    /\ event.op = "timer" /\ event.arg = "open"
    /\ rendered = <<"TREE">>
    /\ internalMode = "TREE"

\* C5: at most one delayed action is pending, and none that was pending
\* when requestedMode last changed is still pending (so none of them fires).
LatestWins_C5 ==
    /\ Cardinality(timers) <= 1
    /\ \A t \in timers : ~t.stale

\* A request has replaced the delayed action of the request before it.
Witness_C5 ==
    /\ event.op = "setMode"
    /\ mode # "INITIAL" /\ before.mode # "INITIAL" /\ before.internalMode = "INITIAL"
    /\ sinceRequest = 0
    /\ \E t \in timers : t.kind = "open" /\ t.arg = mode /\ t.remaining = OpenDelay

\* C6: with internalMode SCATTERED or TREE, a request for the other
\* non-INITIAL mode sets internalMode to it in the same step and leaves no
\* timer pending.
DirectSwitch_C6 ==
    [][ (internalMode # "INITIAL" /\ mode' # mode /\ mode' # "INITIAL")
            => (internalMode' = mode' /\ rendered' = <<mode'>> /\ timers' = {})
      ]_vars

\* SCATTERED was switched to TREE with the box open.
Witness_C6 ==
    /\ event.op = "setMode" /\ event.arg = "TREE"
    /\ before = [mode |-> "SCATTERED", internalMode |-> "SCATTERED", isBoxOpen |-> TRUE]
    /\ internalMode = "TREE"
    /\ sinceRequest = 0

\* =========================================================================
\* Properties of the interpolators (checked under SpecAnim)
\* =========================================================================

\* The target position of the active mode, the class constants and the
\* fountain condition, written out for the properties.
ModeTarget(o, m) ==
    CASE m = "INITIAL" -> o.initialPos
      [] m = "SCATTERED" -> o.scatterPos
      [] m = "TREE" -> o.treePos

RateOf(o) == IF o.kind = "voxel" THEN <<5, 2>> ELSE <<3, 1>>

BelowThreshold(o) ==
    IF o.kind = "voxel" THEN o.position.y < -2 * Unit ELSE o.position.y < -1 * Unit

Dist2(p, q) == (p.x - q.x) * (p.x - q.x) + (p.y - q.y) * (p.y - q.y)
               + (p.z - q.z) * (p.z - q.z)

\* Squared horizontal distance from the vertical axis.
Horiz2(p) == p.x * p.x + p.z * p.z

Between(a, v, b) == (a <= v /\ v <= b) \/ (b <= v /\ v <= a)

\* The step of the frame is 1: delta >= 1 / rate.
SnapDelta(o, delta) == delta[1] * RateOf(o)[1] >= delta[2] * RateOf(o)[2]

\* C7: under a fixed internalMode every frame leaves the distance to the
\* mode's target no larger, a frame with positive delta brings an object
\* that is not at the target strictly closer, and the object reaches the
\* target within a bounded number of frames: here, within two consecutive
\* frames of step 1.
Convergence_C7 ==
    [][ event'.op = "frame"
          => LET t == ModeTarget(obj, internalMode) IN
             /\ Dist2(obj'.position, t) <= Dist2(obj.position, t)
             /\ (event'.delta[1] > 0 /\ obj.position # t)
                   => Dist2(obj'.position, t) < Dist2(obj.position, t)
             /\ (event.op = "frame" /\ SnapDelta(obj, event.delta)
                   /\ SnapDelta(obj, event'.delta))
                   => obj'.position = t
      ]_vars

\* C8 as stated: a frame with delta >= 1/rate puts the object at the target
\* of the active mode.
SnapAlways_C8 ==
    [][ (event'.op = "frame" /\ SnapDelta(obj, event'.delta))
          => obj'.position = ModeTarget(obj, internalMode)
      ]_vars

\* C8 amended: a frame with delta >= 1/rate puts the object at the target of
\* the active mode, unless the mode is SCATTERED and the object is below the
\* threshold: then y becomes the target's y and x and z are halved.
SnapUnlessFountain_C8 ==
    [][ (event'.op = "frame" /\ SnapDelta(obj, event'.delta))
          => LET t == ModeTarget(obj, internalMode) IN
             IF internalMode = "SCATTERED" /\ BelowThreshold(obj)
             THEN /\ obj'.position.y = t.y
                  /\ 2 * obj'.position.x = obj.position.x
                  /\ 2 * obj'.position.z = obj.position.z
             ELSE obj'.position = t
      ]_vars

\* A voxel above the threshold was snapped onto its SCATTERED target.
Witness_C8 ==
    /\ event.op = "frame" /\ SnapDelta(obj, event.delta)
    /\ obj.kind = "voxel"
    /\ internalMode = "SCATTERED"
    /\ obj.position = obj.scatterPos
    /\ obj.scatterPos.x # 0

\* C9: the step of every frame lies in [0, 1], and after the frame each
\* coordinate (and the ornament's scale) lies between its previous value and
\* the value it is interpolated toward.
NoOvershoot_C9 ==
    [][ event'.op = "frame"
          => LET t == ModeTarget(obj, internalMode)
                 step == Step(event'.delta, RateOf(obj))
                 fountain == internalMode = "SCATTERED" /\ BelowThreshold(obj)
                 tx == IF fountain THEN 0 ELSE t.x
                 tz == IF fountain THEN 0 ELSE t.z
                 ts == IF internalMode = "INITIAL" THEN Fifth ELSE obj.scale
             IN /\ 0 <= step[1] /\ step[1] <= step[2]
                /\ Between(obj.position.x, obj'.position.x, tx)
                /\ Between(obj.position.y, obj'.position.y, t.y)
                /\ Between(obj.position.z, obj'.position.z, tz)
                /\ obj.kind = "ornament" => Between(obj.curScale, obj'.curScale, ts)
      ]_vars

\* A 1 s stall (delta * rate > 1) left the object on its target.
Witness_C9 ==
    /\ event.op = "frame" /\ event.delta = <<1, 1>>
    /\ internalMode = "TREE"
    /\ obj.position = obj.treePos
    /\ obj.position # obj.initialPos

\* C10 as stated: every frame of an object below the threshold in SCATTERED
\* mode strictly decreases its horizontal distance from the axis.
FountainStrict_C10 ==
    [][ (event'.op = "frame" /\ internalMode = "SCATTERED" /\ BelowThreshold(obj))
          => Horiz2(obj'.position) < Horiz2(obj.position)
      ]_vars

\* C10 amended: such a frame never increases the horizontal distance, and
\* decreases it strictly when delta > 0 and the object is off the axis.
FountainSuppression_C10 ==
    [][ (event'.op = "frame" /\ internalMode = "SCATTERED" /\ BelowThreshold(obj))
          => /\ Horiz2(obj'.position) <= Horiz2(obj.position)
             /\ (event'.delta[1] > 0 /\ Horiz2(obj.position) > 0)
                   => Horiz2(obj'.position) < Horiz2(obj.position)
             /\ (event'.delta[1] = 0 \/ Horiz2(obj.position) = 0)
                   => Horiz2(obj'.position) = Horiz2(obj.position)
      ]_vars

\* The first frame out of the box moved a voxel toward the axis although its
\* SCATTERED target is farther out.
Witness_C10 ==
    /\ event.op = "frame" /\ event.delta[1] > 0
    /\ ticks = 1
    /\ obj.kind = "voxel"
    /\ internalMode = "SCATTERED"
    /\ Horiz2(obj.position) < Horiz2(obj.initialPos)
    /\ Horiz2(obj.initialPos) < Horiz2(obj.scatterPos)

\* min(1, delta * rate) of the object's kind, written out for the properties.
ClampedStep(o, delta) ==
    IF delta[1] * RateOf(o)[1] >= delta[2] * RateOf(o)[2]
    THEN <<1, 1>>
    ELSE <<delta[1] * RateOf(o)[1], delta[2] * RateOf(o)[2]>>

\* v is lerp(a, b, t) for the fraction t: v = (1 - t) * a + t * b.
IsLerp(v, a, b, t) == t[2] * v = (t[2] - t[1]) * a + t[1] * b

\* C11: the fountain rule has no memory: on every frame in SCATTERED mode
\* whose object is at or above the threshold, all three axes are interpolated
\* toward the unmodified SCATTERED target, whatever happened on earlier frames.
FountainMemoryless_C11 ==
    [][ (event'.op = "frame" /\ internalMode = "SCATTERED" /\ ~BelowThreshold(obj))
          => LET step == ClampedStep(obj, event'.delta) IN
             /\ IsLerp(obj'.position.x, obj.position.x, obj.scatterPos.x, step)
             /\ IsLerp(obj'.position.y, obj.position.y, obj.scatterPos.y, step)
             /\ IsLerp(obj'.position.z, obj.position.z, obj.scatterPos.z, step)
      ]_vars

\* A voxel that left the box under the fountain rule (x halved, y on the
\* target) went half of the way to its SCATTERED target on the next frame.
Witness_C11 ==
    /\ event.op = "frame" /\ ticks = 2
    /\ obj.kind = "voxel"
    /\ internalMode = "SCATTERED"
    /\ obj.initialPos.x # 0
    /\ obj.position.y = obj.scatterPos.y
    /\ 4 * obj.position.x = obj.initialPos.x + 2 * obj.scatterPos.x

\* C12: on a frame in SCATTERED mode with the object below the threshold
\* (-2 for voxels, -1 for ornaments) x and z become lerp(., 0, step / 2) and
\* y becomes lerp(y, scatter target y, step); on every other frame the
\* position becomes lerp(position, target of the active mode, step).
FountainRule_C12 ==
    [][ event'.op = "frame"
          => LET step == ClampedStep(obj, event'.delta)
                 half == <<step[1], 2 * step[2]>>
                 t == ModeTarget(obj, internalMode)
                 p == obj.position
                 q == obj'.position
             IN IF internalMode = "SCATTERED" /\ BelowThreshold(obj)
                THEN /\ IsLerp(q.x, p.x, 0, half)
                     /\ IsLerp(q.z, p.z, 0, half)
                     /\ IsLerp(q.y, p.y, obj.scatterPos.y, step)
                ELSE /\ IsLerp(q.x, p.x, t.x, step)
                     /\ IsLerp(q.y, p.y, t.y, step)
                     /\ IsLerp(q.z, p.z, t.z, step)
      ]_vars

\* An ornament that had settled in the box took one fountain frame at half of
\* 1/rate: x went a quarter of the way to the axis, y half of the way to the
\* SCATTERED target.
Witness_C12 ==
    /\ event.op = "frame" /\ ticks = 2
    /\ obj.kind = "ornament"
    /\ internalMode = "SCATTERED"
    /\ obj.initialPos.x # 0
    /\ 4 * obj.position.x = 3 * obj.initialPos.x
    /\ 2 * obj.position.y = obj.initialPos.y + obj.scatterPos.y

\* C13: the fountain rule is applied only on the way out of the box: on a
\* frame after a TREE -> SCATTERED switch, with the object at its tree
\* position, x and z are interpolated toward the SCATTERED target and not
\* toward zero.
NoFountainAfterTree_C13 ==
    [][ (/\ event'.op = "frame"
         /\ mode = "SCATTERED" /\ internalMode = "SCATTERED"
         /\ before.internalMode = "TREE"
         /\ obj.position = obj.treePos)
          => LET step == ClampedStep(obj, event'.delta) IN
             /\ IsLerp(obj'.position.x, obj.position.x, obj.scatterPos.x, step)
             /\ IsLerp(obj'.position.z, obj.position.z, obj.scatterPos.z, step)
      ]_vars

\* C14: with internalMode held at SCATTERED every object under the fountain
\* rule eventually rises to or above the threshold, whatever its SCATTERED
\* target.  Under the fountain rule y only moves toward the target's y and a
\* frame of step 1 puts it there, so the object must be at or above the
\* threshold after such a frame.
FountainExit_C14 ==
    [][ (/\ event'.op = "frame" /\ SnapDelta(obj, event'.delta)
         /\ internalMode = "SCATTERED" /\ BelowThreshold(obj))
          => ~BelowThreshold(obj')
      ]_vars

\* The scale an object of a mode is shown at once settled, written out for
\* the properties.
ModeScale(o, m) ==
    IF m = "INITIAL" THEN Fifth
    ELSE IF o.kind = "voxel" THEN (IF m = "TREE" THEN Unit ELSE 4 * Fifth)
    ELSE o.scale

\* C15: on every frame, for voxels and ornaments alike, the displayed scale
\* becomes lerp(old scale, target scale of internalMode, step); it is not set
\* to the target when step < 1.
ScaleLerp_C15 ==
    [][ event'.op = "frame"
          => IsLerp(obj'.curScale, obj.curScale, ModeScale(obj, internalMode),
                    ClampedStep(obj, event'.delta))
      ]_vars

\* C16: before the first frame every object, voxel or ornament, is at its
\* INITIAL-mode target: at initialPos and at scale 0.2.
InitialTransform_C16 ==
    event.op = "mount"
        => /\ obj.position = obj.initialPos
           /\ obj.curScale = Fifth

\* The generated data of an object: everything but its current transform.
Generated(o) == <<o.kind, o.treePos, o.scatterPos, o.initialPos, o.scale>>

\* C17: frames, mode requests and timer firings leave every object's tree,
\* scatter and initial position, its base scale and the number of objects
\* unchanged; only the current transform is written.
DataFixed_C17 ==
    [][ /\ Len(voxels') = Len(voxels)
        /\ Len(ornaments') = Len(ornaments)
        /\ \A i \in DOMAIN voxels : Generated(voxels'[i]) = Generated(voxels[i])
        /\ \A j \in DOMAIN ornaments : Generated(ornaments'[j]) = Generated(ornaments[j])
      ]_vars

\* A frame outside INITIAL mode has moved every voxel out of its box position.
Witness_C17 ==
    /\ event.op = "tick"
    /\ internalMode # "INITIAL"
    /\ \A i \in DOMAIN voxels : voxels[i].position # voxels[i].initialPos
    /\ \E j \in DOMAIN ornaments : ornaments[j].curScale # Unit

\* C18: within one frame every voxel and every ornament is updated once, all
\* with the same mode, which is internalMode as committed before the frame;
\* the instance matrix is flagged once, after every voxel has been written.
TickAtomic_C18 ==
    /\ \A k \in DOMAIN frameLog : frameLog[k].mode = frameLog[1].mode
    /\ event.op = "tick"
          => /\ Len(frameLog) = Len(voxels) + 1 + Len(ornaments)
             /\ \A k \in DOMAIN frameLog : frameLog[k].mode = internalMode
    /\ \A k \in DOMAIN frameLog :
          frameLog[k].op = "needsUpdate"
             => /\ \A i \in DOMAIN voxels :
                      \E j \in 1..(k - 1) :
                          frameLog[j].op = "setMatrixAt" /\ frameLog[j].i = i
                /\ \A j \in DOMAIN frameLog : frameLog[j].op = "needsUpdate" => j = k
    /\ \A i \in DOMAIN voxels :
          Cardinality({k \in DOMAIN frameLog :
                          frameLog[k].op = "setMatrixAt" /\ frameLog[k].i = i})
             = (IF frameLog = <<>> THEN 0 ELSE 1)
    /\ \A j \in DOMAIN ornaments :
          Cardinality({k \in DOMAIN frameLog :
                          frameLog[k].op = "ornament" /\ frameLog[k].i = j})
             = (IF frameLog = <<>> THEN 0 ELSE 1)

\* A frame ran inside the opening delay: the request is SCATTERED, and every
\* voxel and ornament was still updated with INITIAL.
Witness_C18 ==
    /\ event.op = "tick" /\ event.delta[1] > 0
    /\ mode = "SCATTERED" /\ internalMode = "INITIAL"
    /\ Len(frameLog) = Len(voxels) + 1 + Len(ornaments)
    /\ \A k \in DOMAIN frameLog : frameLog[k].mode = "INITIAL"

\* C19: the session starts with requestedMode = INITIAL, internalMode =
\* INITIAL and the lid closed, and as long as no mode has been requested
\* (mode is INITIAL and was INITIAL before the latest request, if any) it
\* stays so: the close timer of the first effect run changes nothing.
StartState_C19 ==
    /\ event.op = "mount" => mode = "INITIAL"
    /\ (mode = "INITIAL" /\ before.mode = "INITIAL")
          => /\ internalMode = "INITIAL"
             /\ ~isBoxOpen
             /\ rendered = <<>>

\* The close timer of the first effect run has fired and nothing was ever
\* requested.
Witness_C19 ==
    /\ event.op = "timer" /\ event.arg = "close"
    /\ mode = "INITIAL" /\ before.mode = "INITIAL"
    /\ timers = {}

\* The orchestrator is at rest on the requested mode.
Stable ==
    /\ internalMode = mode
    /\ isBoxOpen = (mode # "INITIAL")
    /\ timers = {}

\* C20: if requestedMode stops changing, the orchestrator eventually reaches
\* and stays in internalMode = requestedMode, lid open exactly when the mode
\* is not INITIAL, no timer pending; and no step changes internalMode more
\* than once (the effect re-run after its own change is a fixed point).
Stabilisation_C20 ==
    /\ ([]<><<mode' # mode>>_vars) \/ (<>[]Stable)
    /\ [](Len(rendered) <= 1)

\* The request changed to TREE inside the opening delay; the rescheduled
\* timer fired and the orchestrator is at rest on TREE.
Witness_C20 ==
    /\ event.op = "timer" /\ event.arg = "open"
    /\ Stable /\ mode = "TREE"
    /\ rendered = <<"TREE">>
    /\ before.mode = "SCATTERED" /\ before.internalMode = "INITIAL"

\* C21: stale timers never act: while requestedMode is not INITIAL the lid is
\* open (no close timer of an earlier INITIAL request closes it), and while
\* requestedMode is INITIAL internalMode is INITIAL (no open timer of an
\* earlier request moves the objects out).
StaleTimersInert_C21 ==
    /\ mode # "INITIAL" => isBoxOpen
    /\ mode = "INITIAL"
          => /\ internalMode = "INITIAL"
             /\ \A i \in DOMAIN rendered : rendered[i] = "INITIAL"

\* INITIAL was requested while an open timer was pending, and the time at
\* which that timer was due has passed.
Witness_C21 ==
    /\ mode = "INITIAL"
    /\ before.mode # "INITIAL" /\ before.internalMode = "INITIAL"
    /\ sinceRequest >= OpenDelay
    /\ internalMode = "INITIAL"

\* C22: in every step that changes internalMode, each value it is given is
\* the requestedMode of that moment, also when a timer callback assigns the
\* mode it captured when it was scheduled.
AssignsRequested_C22 ==
    [][ /\ internalMode' # internalMode => internalMode' = mode'
        /\ \A i \in DOMAIN rendered' : rendered'[i] = mode'
      ]_vars

\* SCATTERED was requested again after TREE inside the opening delay, and
\* the timer of the last request assigned SCATTERED.
Witness_C22 ==
    /\ event.op = "timer" /\ event.arg = "open"
    /\ mode = "SCATTERED"
    /\ before.mode = "TREE" /\ before.internalMode = "INITIAL"
    /\ rendered = <<"SCATTERED">>

DelayOf(kind) == IF kind = "open" THEN 350 ELSE 500

\* C24: every pending timer has the full delay of its kind counted from the
\* latest change of requestedMode (or from mount): its remaining time is the
\* delay less the time since then, so none fires earlier.
FreshDelay_C24 ==
    \A t \in timers :
        /\ t.remaining + sinceRequest >= DelayOf(t.kind)
        /\ t.remaining > 0 => t.remaining + sinceRequest = DelayOf(t.kind)

\* A request superseded another inside the opening delay; its timer is part
\* of the way through a fresh delay.
Witness_C24 ==
    /\ event.op = "advance"
    /\ mode # "INITIAL" /\ before.mode # "INITIAL" /\ before.internalMode = "INITIAL"
    /\ sinceRequest > 0
    /\ \E t \in timers : t.kind = "open" /\ t.remaining > 0

\* C25: a request for the mode that is already requested leaves
\* internalMode, the lid and the pending timer with its remaining delay
\* unchanged.
SameModeNoOp_C25 ==
    [][ (event'.op = "setMode" /\ event'.arg = mode)
            => /\ mode' = mode
               /\ UNCHANGED <<internalMode, isBoxOpen, timers, timeout>>
               /\ rendered' = <<>>
      ]_vars

\* The requested mode was clicked again while its open timer was part of the
\* way through the delay.
Witness_C25 ==
    /\ event.op = "setMode" /\ event.arg = mode
    /\ rendered = <<>>
    /\ internalMode = "INITIAL" /\ mode # "INITIAL"
    /\ sinceRequest > 0
    /\ \E t \in timers : t.kind = "open" /\ 0 < t.remaining /\ t.remaining < OpenDelay

\* C26: while requestedMode is INITIAL the only request that can be issued
\* is SCATTERED, so requestedMode never goes from INITIAL to TREE; TREE and
\* INITIAL are requested only while requestedMode is not INITIAL.
RequestOrder_C26 ==
    [][ /\ (event'.op = "setMode" /\ mode = "INITIAL") => event'.arg = "SCATTERED"
        /\ (mode = "INITIAL" /\ mode' # mode) => mode' = "SCATTERED"
        /\ (event'.op = "setMode" /\ event'.arg \in {"TREE", "INITIAL"})
              => mode # "INITIAL"
      ]_vars

\* TREE was requested from SCATTERED, the first mode after INITIAL.
Witness_C26 ==
    /\ event.op = "setMode" /\ event.arg = "TREE"
    /\ mode = "TREE"
    /\ before.mode = "SCATTERED"

\* =========================================================================
\* Properties of the gift box lid (checked under SpecLid)
\* =========================================================================

\* C27: the lid never overshoots: after every frame of the lid, whatever
\* its delta, rotation.x, position.y and position.z lie between their
\* previous values and the open or closed target chosen by the lid flag.
LidNoOvershoot_C27 ==
    [][ event'.op = "lidframe"
          => LET rot == IF isBoxOpen THEN -1 * Unit ELSE 0
                 y == IF isBoxOpen THEN 2 * Unit ELSE (41 * Unit) \div 20
                 z == IF isBoxOpen THEN -2 * Unit ELSE 0
             IN /\ Between(lid.rotX, lid'.rotX, rot)
                /\ Between(lid.posY, lid'.posY, y)
                /\ Between(lid.posZ, lid'.posZ, z)
      ]_vars

====
